---- MODULE Spec2Model ----
(***************************************************************************)
(* State-machine model of app/static/js/main.js: the ChoksApp controller   *)
(* (location-analysis form, loading modal, results panel, saved analyses   *)
(* in localStorage) and the Analytics reporter (fire-and-forget events).   *)
(*                                                                         *)
(* The DOM is modelled by the fields the code reads and writes.  The       *)
(* content of #results-content is a sequence of rendered blocks (innerHTML *)
(* assignment replaces the sequence, showSuccess prepends to it).  Every   *)
(* await of handleLocationAnalysis is a separate step, so that other       *)
(* events interleave exactly where the event loop lets them.               *)
(***************************************************************************)
EXTENDS Integers, Sequences, FiniteSets, Bags, TLC

VARIABLES
    location,        \* value of the #location input
    businessType,    \* value of the #business_type control
    demographics,    \* set of checked input[name="demographics"] values
    focus,           \* which element has the input focus
    loadingHidden,   \* #loading-modal has class "hidden"
    resultsHidden,   \* #results-section has class "hidden"
    resultsContent,  \* innerHTML of #results-content, a sequence of blocks
    calls,           \* invocations of handleLocationAnalysis suspended at an await
    nCalls,          \* number of POST /api/analyze issued so far
    storage,         \* localStorage['savedAnalyses'], <<>> when the key is unset
    analytics,       \* POST /api/analytics requests in flight, a bag of bodies
    nEvents,         \* number of POST /api/analytics issued so far
    nSubmits,        \* history: number of submit events so far
    saveLog,         \* history: the id and the location of every save, in order
    done,            \* history: the call the last step finished, <<>> if none
    shown            \* history: the result the card in the content was rendered from

vars == <<location, businessType, demographics, focus, loadingHidden,
          resultsHidden, resultsContent, calls, nCalls, storage, analytics,
          nEvents, nSubmits, saveLog, done, shown>>

(***************************************************************************)
(* Bounds of the exploration.                                              *)
(***************************************************************************)
MaxSubmits == 2      \* submit events
MaxSaves == 2        \* clicks on "Save Analysis"
MaxInFlight == 1     \* analytics requests in flight when another is sent

(***************************************************************************)
(* Input domains.                                                          *)
(***************************************************************************)
Absent == "<absent>"                 \* a field the JSON object does not have
Locations == {"", "Downtown"}
BusinessTypes == {"", "food_truck"}
DemographicOptions == {"young_professionals"}
Timestamps == {"T1"}

\* Numbers are carried in tenths: 824 stands for 82.4.  An optional member of
\* a JSON object is <<>> when missing and <<v>> when present.
Rec1 ==
    [confidence_score |-> 824,
     reasoning |-> "High lunch-hour demand",
     estimated_revenue_potential |-> "$800-1200/day",
     setup_requirements |-> <<"permit A">>,
     recommended_duration |-> "3 months",
     insights |-> << [foot_traffic_score |-> 912,
                      competition_density |-> 400,
                      demographic_match |-> 776,
                      category_gaps |-> <<"vegan">>,
                      nearby_attractions |-> <<>>,
                      risk_factors |-> <<>>,
                      optimal_hours |-> <<"11:00-14:00">>] >>]

Rec2 ==
    [confidence_score |-> 695,
     reasoning |-> "Moderate demand",
     estimated_revenue_potential |-> "$300-500/day",
     setup_requirements |-> <<"permit A", "permit B">>,
     recommended_duration |-> "1 month",
     insights |-> << [foot_traffic_score |-> 455,
                      competition_density |-> 604,
                      demographic_match |-> 499,
                      category_gaps |-> <<>>,
                      nearby_attractions |-> <<"museum", "park">>,
                      risk_factors |-> <<"rain", "parking">>,
                      optimal_hours |-> <<"17:00-21:00", "11:00-13:00">>] >>]

\* A recommendation that came without its insights member.
Rec3 ==
    [confidence_score |-> 610,
     reasoning |-> "Partial data",
     estimated_revenue_potential |-> "$100-200/day",
     setup_requirements |-> <<>>,
     recommended_duration |-> "2 weeks",
     insights |-> <<>>]

Body(success, analysis_id, recommendation, error) ==
    [success |-> success, analysis_id |-> analysis_id,
     recommendation |-> recommendation, error |-> error]

\* What fetch('/api/analyze') can resolve to: the status class (response.ok)
\* and the body text, <<>> when it is not JSON and <<object>> when it is.
Responses ==
    { [ok |-> TRUE,  body |-> <<Body(TRUE, "a1", <<Rec1>>, Absent)>>],
      [ok |-> TRUE,  body |-> <<Body(TRUE, "a2", <<Rec2>>, Absent)>>],
      [ok |-> TRUE,  body |-> <<Body(TRUE, Absent, <<Rec1>>, Absent)>>],
      [ok |-> TRUE,  body |-> <<Body(TRUE, "a3", <<>>, Absent)>>],
      [ok |-> TRUE,  body |-> <<Body(TRUE, "a3", <<Rec3>>, Absent)>>],
      [ok |-> TRUE,  body |-> <<Body(FALSE, Absent, <<>>, "rate limited")>>],
      [ok |-> TRUE,  body |-> <<Body(FALSE, Absent, <<>>, Absent)>>],
      [ok |-> TRUE,  body |-> <<Body(FALSE, Absent, <<>>, "")>>],
      [ok |-> FALSE, body |-> <<Body(FALSE, Absent, <<>>, "rate limited")>>],
      [ok |-> FALSE, body |-> <<Body(TRUE, "a1", <<Rec1>>, Absent)>>],
      [ok |-> TRUE,  body |-> <<>>],
      [ok |-> FALSE, body |-> <<>>] }

\* No response: fetch rejected.
NoResponse == [ok |-> FALSE, body |-> <<"rejected">>]

(***************************************************************************)
(* Pure helpers of the rendering code.                                     *)
(***************************************************************************)
\* Math.round on a number given in tenths: the nearest integer, halves up.
MathRound(x) == (x + 5) \div 10

\* Array.prototype.join: the elements with the separator between them.
RECURSIVE Join(_, _)
Join(arr, sep) ==
    IF Len(arr) = 0 THEN <<>>
    ELSE IF Len(arr) = 1 THEN <<arr[1]>>
    ELSE <<arr[1], sep>> \o Join(Tail(arr), sep)

\* Fault: the template reads a member the result does not have
\* (result.analysisId), which is undefined for every result.
Interpolate_WrongMember(x) == "undefined"

\* `${x}` of a string member: the string, and "undefined" when it is missing.
Interpolate(x) == IF x = Absent THEN "undefined" ELSE x

\* JavaScript truthiness of an optional string member.
Truthy(x) == x # Absent /\ x # ""

\* Fault: the thresholds compared with > instead of >=.
getConfidenceClass_Strict(score) ==
    IF score > 700 THEN "confidence-high"
    ELSE IF score > 500 THEN "confidence-medium"
    ELSE "confidence-low"

getConfidenceClass(score) ==
    IF score >= 700 THEN "confidence-high"
    ELSE IF score >= 500 THEN "confidence-medium"
    ELSE "confidence-low"

\* displayResults throws a TypeError before it touches the DOM when
\* result.recommendation or recommendation.insights is undefined.
RenderThrows(result) ==
    \/ result.recommendation = <<>>
    \/ result.recommendation[1].insights = <<>>

\* ${arr.length > 0 ? `...` : ''}: an optional section of the card.
Section_MoreThanOne(arr, content) ==
    IF Len(arr) > 1 THEN << content >> ELSE <<>>

Section(arr, content) ==
    IF Len(arr) > 0 THEN << content >> ELSE <<>>

\* arr.map(x => `<li>${x}</li>`).join(''): one list item per element.
RECURSIVE ListItems(_)
ListItems(arr) ==
    IF Len(arr) = 0 THEN <<>>
    ELSE << [li |-> arr[1]] >> \o ListItems(Tail(arr))

\* The recommendation card built by the template literal of displayResults.
\* An optional section is <<>> when left out and <<content>> when rendered.
RenderCard(result) ==
    LET recommendation == result.recommendation[1]
        insights == recommendation.insights[1]
    IN  [kind |-> "card",
         badge |-> getConfidenceClass(recommendation.confidence_score),
         confidence |-> MathRound(recommendation.confidence_score),
         tiles |-> << MathRound(insights.foot_traffic_score),
                      MathRound(insights.competition_density),
                      MathRound(insights.demographic_match),
                      Len(insights.category_gaps) >>,
         reasoning |-> recommendation.reasoning,
         revenue |-> recommendation.estimated_revenue_potential,
         hours |-> Join(insights.optimal_hours, ", "),
         gaps |-> Section(insights.category_gaps,
                          Join(insights.category_gaps, ", ")),
         attractions |-> Section(insights.nearby_attractions,
                                 Join(insights.nearby_attractions, ", ")),
         risks |-> Section(insights.risk_factors,
                           ListItems(insights.risk_factors)),
         requirements |-> ListItems(recommendation.setup_requirements),
         duration |-> recommendation.recommended_duration,
         saveArg |-> Interpolate(result.analysis_id)]

ErrorPanel(message) == [kind |-> "error", message |-> message]

SuccessBanner(message) == [kind |-> "success", message |-> message]

(***************************************************************************)
(* localStorage holds text.  JSON.stringify of the array of saved records  *)
(* is modelled as its token sequence, JSON.parse reads the tokens back.    *)
(***************************************************************************)
StringifyRecord(r) ==
    <<"{", "id", r.id, "timestamp", r.timestamp, "location", r.location, "}">>

RecordTokens == 8

RECURSIVE StringifyRecords(_)
StringifyRecords(arr) ==
    IF Len(arr) = 0 THEN <<>>
    ELSE IF Len(arr) = 1 THEN StringifyRecord(arr[1])
    ELSE StringifyRecord(arr[1]) \o <<",">> \o StringifyRecords(Tail(arr))

JSONstringify(arr) == <<"[">> \o StringifyRecords(arr) \o <<"]">>

ParseRecord(toks) ==
    [id |-> toks[3], timestamp |-> toks[5], location |-> toks[7]]

RECURSIVE ParseRecords(_)
ParseRecords(toks) ==
    IF Len(toks) < RecordTokens THEN <<>>
    ELSE <<ParseRecord(SubSeq(toks, 1, RecordTokens))>>
         \o ParseRecords(SubSeq(toks, RecordTokens + 2, Len(toks)))

JSONparse(text) == ParseRecords(SubSeq(text, 2, Len(text) - 1))

\* localStorage.getItem('savedAnalyses') || '[]', parsed.
ReadSaved(text) == JSONparse(IF text = <<>> THEN JSONstringify(<<>>) ELSE text)

(***************************************************************************)
(* Initial state: the page is loaded, both constructors have run.          *)
(* ChoksApp binds its listeners; Analytics has sent the page_view event.   *)
(***************************************************************************)
DefaultLocation == ""
DefaultBusinessType == ""
DefaultDemographics == {}

\* The request body of Analytics.sendEvent.
AnalyticsEvent(eventType, data) ==
    [event_type |-> eventType, data |-> data]

PageView == [page |-> "/", timestamp |-> "T0", user_agent |-> "UA"]

Init ==
    /\ location = DefaultLocation
    /\ businessType = DefaultBusinessType
    /\ demographics = DefaultDemographics
    /\ focus = "elsewhere"
    /\ loadingHidden = TRUE
    /\ resultsHidden = TRUE
    /\ resultsContent = <<>>
    /\ calls = {}
    /\ nCalls = 0
    /\ storage = <<>>
    /\ analytics = SetToBag({ AnalyticsEvent("page_view", PageView) })
    /\ nEvents = 1
    /\ nSubmits = 0
    /\ saveLog = <<>>
    /\ done = <<>>
    /\ shown = <<>>

(***************************************************************************)
(* DOM effects of the ChoksApp methods.                                    *)
(***************************************************************************)
showLoading == loadingHidden' = FALSE

hideLoading == loadingHidden' = TRUE

\* Fault: showError that reveals the section and leaves the old content.
showError_KeepContent(message) ==
    /\ resultsContent' = resultsContent
    /\ resultsHidden' = FALSE
    /\ shown' = shown

\* Fault: showError that adds its panel above the content instead of
\* replacing it.
showError_Prepend(message) ==
    /\ resultsContent' = << ErrorPanel(message) >> \o resultsContent
    /\ resultsHidden' = FALSE
    /\ shown' = shown

\* The assignment to innerHTML drops the card, if there was one.
showError(message) ==
    /\ resultsContent' = << ErrorPanel(message) >>
    /\ resultsHidden' = FALSE
    /\ shown' = <<>>

\* Fault: displayResults that leaves the results section hidden.
displayResults_StaysHidden(result) ==
    /\ resultsContent' = << RenderCard(result) >>
    /\ UNCHANGED resultsHidden
    /\ shown' = << result >>

\* Fault: displayResults with `innerHTML += html`.
displayResults_Append(result) ==
    /\ resultsContent' = resultsContent \o << RenderCard(result) >>
    /\ resultsHidden' = FALSE
    /\ shown' = << result >>

displayResults(result) ==
    /\ resultsContent' = << RenderCard(result) >>
    /\ resultsHidden' = FALSE
    /\ shown' = << result >>

\* Fault: showSuccess that assigns the banner instead of prepending it.
showSuccess_Replace(message) ==
    resultsContent' = << SuccessBanner(message) >>

showSuccess(message) ==
    resultsContent' = << SuccessBanner(message) >> \o resultsContent

\* Analytics.sendEvent: one POST /api/analytics, not awaited.
sendEvent(eventType, data) ==
    /\ BagCardinality(analytics) < MaxInFlight
    /\ analytics' = analytics (+) SetToBag({ AnalyticsEvent(eventType, data) })
    /\ nEvents' = nEvents + 1

(***************************************************************************)
(* The user edits the form.  Typing needs the focus in the location field; *)
(* which element holds the focus after another control is used depends on  *)
(* the browser, so leaving the location field is a step of its own.        *)
(***************************************************************************)
Blur ==
    /\ focus = "location"
    /\ focus' = "elsewhere"
    /\ done' = <<>>
    /\ UNCHANGED <<location, businessType, demographics, loadingHidden,
                   resultsHidden, resultsContent, calls, nCalls, storage,
                   analytics, nEvents, nSubmits, saveLog, shown>>

InputLocation(value) ==
    /\ value # location
    /\ location' = value
    /\ focus' = "location"
    /\ done' = <<>>
    /\ UNCHANGED <<businessType, demographics, loadingHidden, resultsHidden,
                   resultsContent, calls, nCalls, storage, analytics, nEvents,
                   nSubmits, saveLog, shown>>

SelectBusinessType(value) ==
    /\ value # businessType
    /\ businessType' = value
    /\ done' = <<>>
    /\ UNCHANGED <<location, demographics, focus, loadingHidden,
                   resultsHidden, resultsContent, calls, nCalls, storage,
                   analytics, nEvents, nSubmits, saveLog, shown>>

ToggleDemographic(d) ==
    /\ demographics' = IF d \in demographics THEN demographics \ {d}
                       ELSE demographics \cup {d}
    /\ done' = <<>>
    /\ UNCHANGED <<location, businessType, focus, loadingHidden,
                   resultsHidden, resultsContent, calls, nCalls, storage,
                   analytics, nEvents, nSubmits, saveLog, shown>>

(***************************************************************************)
(* A submit event on #location-form.  Both listeners run in the order they *)
(* were bound: handleLocationAnalysis up to its first await, then the      *)
(* listener of Analytics.bindAnalyticsEvents.                              *)
(***************************************************************************)
\* Fault: the validation forgets the business type.
handleLocationAnalysis_LocationOnly ==
    IF location = ""
    THEN /\ showError("Please fill in all required fields")
         /\ UNCHANGED <<loadingHidden, calls, nCalls>>
    ELSE /\ showLoading
         /\ calls' = calls \cup { [id |-> nCalls + 1, pc |-> "fetch"] }
         /\ nCalls' = nCalls + 1
         /\ UNCHANGED <<resultsContent, resultsHidden, shown>>

\* handleLocationAnalysis from its entry to the return or to `await fetch`.
handleLocationAnalysis ==
    IF location = "" \/ businessType = ""
    THEN /\ showError("Please fill in all required fields")
         /\ UNCHANGED <<loadingHidden, calls, nCalls>>
    ELSE /\ showLoading
         /\ calls' = calls \cup { [id |-> nCalls + 1, pc |-> "fetch"] }
         /\ nCalls' = nCalls + 1
         /\ UNCHANGED <<resultsContent, resultsHidden, shown>>

AnalysisStarted ==
    [business_type |-> businessType, has_demographics |-> demographics # {}]

\* Fault: the event sent from inside the handler, after validation.
Submit_EventAfterValidation ==
    /\ nSubmits < MaxSubmits
    /\ handleLocationAnalysis
    /\ IF location = "" \/ businessType = ""
       THEN UNCHANGED <<analytics, nEvents>>
       ELSE sendEvent("analysis_started", AnalysisStarted)
    /\ nSubmits' = nSubmits + 1
    /\ done' = <<>>
    /\ UNCHANGED <<location, businessType, demographics, focus, storage,
                   saveLog>>

\* The submit event of #location-form: both listeners run, the handler of
\* ChoksApp up to its first await and the one of Analytics.

Submit ==
    /\ nSubmits < MaxSubmits
    /\ handleLocationAnalysis
    /\ sendEvent("analysis_started", AnalysisStarted)
    /\ nSubmits' = nSubmits + 1
    /\ done' = <<>>
    /\ UNCHANGED <<location, businessType, demographics, focus, storage,
                   saveLog>>

(***************************************************************************)
(* The rest of handleLocationAnalysis: what runs when an await settles.    *)
(***************************************************************************)
\* The outcome of a call, kept in the history when its handler has finished.
Done(c, settled, response) ==
    << [id |-> c.id, settled |-> settled, response |-> response] >>

\* `await fetch(...)` resolves with a response; the handler goes on to
\* `await response.json()`.  Nothing reads the response before that promise
\* settles, so what the response holds is drawn when it is read.
FetchResolve(c) ==
    /\ c.pc = "fetch"
    /\ calls' = (calls \ {c}) \cup { [c EXCEPT !.pc = "json"] }
    /\ done' = <<>>
    /\ UNCHANGED <<location, businessType, demographics, focus, loadingHidden,
                   resultsHidden, resultsContent, nCalls, storage, analytics,
                   nEvents, nSubmits, saveLog, shown>>

\* Fault: the catch block without the finally block.
CatchFinally_NoFinally ==
    /\ showError("Network error: Please check your connection")
    /\ UNCHANGED loadingHidden

\* The catch block and the finally block.
CatchFinally ==
    /\ showError("Network error: Please check your connection")
    /\ hideLoading

\* `await fetch(...)` rejects: catch, finally.
FetchReject(c) ==
    /\ c.pc = "fetch"
    /\ CatchFinally
    /\ calls' = calls \ {c}
    /\ done' = Done(c, "rejected", NoResponse)
    /\ UNCHANGED <<location, businessType, demographics, focus, nCalls,
                   storage, analytics, nEvents, nSubmits, saveLog>>

\* `await response.json()` rejects, the body is not JSON: catch, finally.
JsonReject(c, response) ==
    /\ c.pc = "json"
    /\ response.body = <<>>
    /\ CatchFinally
    /\ calls' = calls \ {c}
    /\ done' = Done(c, "responded", response)
    /\ UNCHANGED <<location, businessType, demographics, focus, nCalls,
                   storage, analytics, nEvents, nSubmits, saveLog>>

\* result.error || 'Analysis failed'
ErrorMessage(result) ==
    IF Truthy(result.error) THEN result.error ELSE "Analysis failed"

\* Fault: the card is rendered whenever the body says success, whatever the
\* status.
HandleResult_IgnoreStatus(ok, result) ==
    /\ IF result.success
       THEN IF RenderThrows(result)
            THEN showError("Network error: Please check your connection")
            ELSE displayResults(result)
       ELSE showError(ErrorMessage(result))
    /\ hideLoading

\* Fault: try / finally without the catch block: what displayResults
\* throws leaves the handler, the content stays as it was.
HandleResult_NoCatch(ok, result) ==
    /\ IF ok /\ result.success
       THEN IF RenderThrows(result)
            THEN UNCHANGED <<resultsContent, resultsHidden, shown>>
            ELSE displayResults(result)
       ELSE showError(ErrorMessage(result))
    /\ hideLoading

\* Fault: hideLoading as the last statement of the try block instead of a
\* finally block; what displayResults throws skips it.
HandleResult_HideInTry(ok, result) ==
    IF ok /\ result.success
    THEN IF RenderThrows(result)
         THEN /\ showError("Network error: Please check your connection")
              /\ UNCHANGED loadingHidden
         ELSE /\ displayResults(result)
              /\ hideLoading
    ELSE /\ showError(ErrorMessage(result))
         /\ hideLoading

\* The try block after `const result = await response.json()`, with the
\* catch block for what displayResults throws, and the finally block.
HandleResult(ok, result) ==
    /\ IF ok /\ result.success
       THEN IF RenderThrows(result)
            THEN showError("Network error: Please check your connection")
            ELSE displayResults(result)
       ELSE showError(ErrorMessage(result))
    /\ hideLoading

\* `await response.json()` resolves.
JsonResolve(c, response) ==
    /\ c.pc = "json"
    /\ response.body # <<>>
    /\ HandleResult(response.ok, response.body[1])
    /\ calls' = calls \ {c}
    /\ done' = Done(c, "responded", response)
    /\ UNCHANGED <<location, businessType, demographics, focus, nCalls,
                   storage, analytics, nEvents, nSubmits, saveLog>>

(***************************************************************************)
(* The controls of the rendered card.                                      *)
(***************************************************************************)
\* Fault: saveAnalysis with unshift instead of push.
saveAnalysis_Unshift(analysisId, timestamp) ==
    /\ storage' = JSONstringify(<< [id |-> analysisId, timestamp |-> timestamp,
                                    location |-> location] >>
                                \o ReadSaved(storage))
    /\ showSuccess("Analysis saved successfully!")

\* Fault: saveAnalysis that does not read the stored list back.
saveAnalysis_Overwrite(analysisId, timestamp) ==
    /\ storage' = JSONstringify(<< [id |-> analysisId, timestamp |-> timestamp,
                                    location |-> location] >>)
    /\ showSuccess("Analysis saved successfully!")

saveAnalysis(analysisId, timestamp) ==
    /\ storage' = JSONstringify(Append(ReadSaved(storage),
                      [id |-> analysisId, timestamp |-> timestamp,
                       location |-> location]))
    /\ showSuccess("Analysis saved successfully!")

\* A click on "Save Analysis" of a card that is on the page:
\* onclick="choksApp.saveAnalysis('${result.analysis_id}')".
ClickSave(i, timestamp) ==
    /\ Len(saveLog) < MaxSaves
    /\ ~resultsHidden
    /\ resultsContent[i].kind = "card"
    /\ saveAnalysis(resultsContent[i].saveArg, timestamp)
    /\ saveLog' = Append(saveLog, [id |-> resultsContent[i].saveArg,
                                    location |-> location])
    /\ done' = <<>>
    /\ UNCHANGED <<location, businessType, demographics, focus, loadingHidden,
                   resultsHidden, calls, nCalls, analytics, nEvents, nSubmits,
                   shown>>

\* Fault: classList.toggle('hidden') instead of classList.add('hidden').
newAnalysis_Toggle ==
    /\ location' = DefaultLocation
    /\ businessType' = DefaultBusinessType
    /\ demographics' = DefaultDemographics
    /\ resultsHidden' = ~resultsHidden
    /\ focus' = "location"
    /\ done' = <<>>
    /\ UNCHANGED <<loadingHidden, resultsContent, calls, nCalls,
                   storage, analytics, nEvents, nSubmits, saveLog, shown>>

\* choksApp.newAnalysis(), the "New Analysis" control: form.reset() restores
\* the default values of the controls and fires no input event.
newAnalysis ==
    /\ location' = DefaultLocation
    /\ businessType' = DefaultBusinessType
    /\ demographics' = DefaultDemographics
    /\ resultsHidden' = TRUE
    /\ focus' = "location"
    /\ done' = <<>>
    /\ UNCHANGED <<loadingHidden, resultsContent, calls, nCalls,
                   storage, analytics, nEvents, nSubmits, saveLog, shown>>

(***************************************************************************)
(* Analytics.                                                              *)
(***************************************************************************)
\* The POST /api/analytics resolves: nothing is chained on the promise.
AnalyticsResolve(e) ==
    /\ analytics' = analytics (-) SetToBag({e})
    /\ done' = <<>>
    /\ UNCHANGED <<location, businessType, demographics, focus, loadingHidden,
                   resultsHidden, resultsContent, calls, nCalls, storage,
                   nEvents, nSubmits, saveLog, shown>>

\* Fault: a failed analytics request reported through showError.
AnalyticsReject_ShowsError(e) ==
    /\ analytics' = analytics (-) SetToBag({e})
    /\ showError("Network error: Please check your connection")
    /\ done' = <<>>
    /\ UNCHANGED <<location, businessType, demographics, focus, loadingHidden,
                   calls, nCalls, storage, nEvents, nSubmits, saveLog>>

\* The POST /api/analytics rejects: .catch logs with console.debug.
AnalyticsReject(e) ==
    /\ analytics' = analytics (-) SetToBag({e})
    /\ done' = <<>>
    /\ UNCHANGED <<location, businessType, demographics, focus, loadingHidden,
                   resultsHidden, resultsContent, calls, nCalls, storage,
                   nEvents, nSubmits, saveLog, shown>>

(***************************************************************************)
(* The specification.                                                      *)
(***************************************************************************)
\* The analysis flow: the form's required fields, the analyze call with
\* every kind of response, the card's controls and the analytics requests.
Next ==
    \/ \E value \in Locations : InputLocation(value)
    \/ \E value \in BusinessTypes : SelectBusinessType(value)
    \/ Submit
    \/ \E c \in calls : FetchResolve(c)
    \/ \E c \in calls : FetchReject(c)
    \/ \E c \in calls : \E response \in Responses : JsonReject(c, response)
    \/ \E c \in calls : \E response \in Responses : JsonResolve(c, response)
    \/ \E i \in DOMAIN resultsContent : \E t \in Timestamps : ClickSave(i, t)
    \/ newAnalysis
    \/ \E e \in BagToSet(analytics) : AnalyticsResolve(e)
    \/ \E e \in BagToSet(analytics) : AnalyticsReject(e)

Spec == Init /\ [][Next]_vars

(***************************************************************************)
(* The form in full: the demographic filters and the focus as well, with   *)
(* one response of each outcome.                                           *)
(***************************************************************************)
FormResponses ==
    { [ok |-> TRUE,  body |-> <<Body(TRUE, "a1", <<Rec1>>, Absent)>>],
      [ok |-> TRUE,  body |-> <<Body(FALSE, Absent, <<>>, "rate limited")>>],
      [ok |-> TRUE,  body |-> <<>>] }

NextForm ==
    \/ \E value \in Locations : InputLocation(value)
    \/ \E value \in BusinessTypes : SelectBusinessType(value)
    \/ \E d \in DemographicOptions : ToggleDemographic(d)
    \/ Blur
    \/ Submit
    \/ \E c \in calls : FetchResolve(c)
    \/ \E c \in calls : FetchReject(c)
    \/ \E c \in calls : \E response \in FormResponses : JsonReject(c, response)
    \/ \E c \in calls : \E response \in FormResponses : JsonResolve(c, response)
    \/ newAnalysis
    \/ \E e \in BagToSet(analytics) : AnalyticsResolve(e)
    \/ \E e \in BagToSet(analytics) : AnalyticsReject(e)

SpecForm == Init /\ [][NextForm]_vars

(***************************************************************************)
(* Rendering: one submission has been accepted and its response has        *)
(* arrived; the body is drawn from recommendations that cover the score    *)
(* thresholds, the rounding and every length of the optional sections.     *)
(***************************************************************************)
MaxItems == 2

Scores == {0, 4, 5, 494, 495, 499, 500, 504, 505, 694, 695, 699, 700, 704,
           705, 995, 1000}

Metrics == {0, 445, 1000}

ItemNames == {"x", "y"}

RECURSIVE SeqsUpTo(_)
SeqsUpTo(n) ==
    IF n = 0 THEN { <<>> }
    ELSE SeqsUpTo(n - 1)
         \cup { Append(q, x) : q \in { r \in SeqsUpTo(n - 1) : Len(r) = n - 1 },
                                x \in ItemNames }

ScoreRecs ==
    { [Rec1 EXCEPT !.confidence_score = s,
                   !.insights = << [Rec1.insights[1] EXCEPT
                                       !.foot_traffic_score = f,
                                       !.competition_density = c,
                                       !.demographic_match = d] >>] :
        s \in Scores, f \in Metrics, c \in Metrics, d \in Metrics }

SectionRecs ==
    { [Rec2 EXCEPT !.insights = << [Rec2.insights[1] EXCEPT
                                       !.category_gaps = g,
                                       !.nearby_attractions = a,
                                       !.risk_factors = r] >>] :
        g \in SeqsUpTo(MaxItems), a \in SeqsUpTo(MaxItems),
        r \in SeqsUpTo(MaxItems) }

RenderResponses ==
    { [ok |-> TRUE, body |-> <<Body(TRUE, "a1", <<rec>>, Absent)>>] :
        rec \in ScoreRecs \cup SectionRecs }

\* The state after Downtown / food_truck was submitted and fetch resolved.
InitRender ==
    /\ location = "Downtown"
    /\ businessType = "food_truck"
    /\ demographics = DefaultDemographics
    /\ focus = "location"
    /\ loadingHidden = FALSE
    /\ resultsHidden = TRUE
    /\ resultsContent = <<>>
    /\ calls = { [id |-> 1, pc |-> "json"] }
    /\ nCalls = 1
    /\ storage = <<>>
    /\ analytics = SetToBag({ AnalyticsEvent("analysis_started",
                        [business_type |-> "food_truck",
                         has_demographics |-> FALSE]) })
    /\ nEvents = 2
    /\ nSubmits = 1
    /\ saveLog = <<>>
    /\ done = <<>>
    /\ shown = <<>>

NextRender ==
    \E c \in calls : \E response \in RenderResponses : JsonResolve(c, response)

SpecRender == InitRender /\ [][NextRender]_vars

(***************************************************************************)
(* Vocabulary of the properties.                                           *)
(***************************************************************************)
ValidationPanel == ErrorPanel("Please fill in all required fields")

NetworkPanel == ErrorPanel("Network error: Please check your connection")

GenericPanel == ErrorPanel("Analysis failed")

IsBanner(b) == b.kind = "success"

IsCard(b) == b.kind = "card"

IsOutcome(b) == b.kind # "success"

\* The blocks of the content that are no success banners.
Outcomes(content) == SelectSeq(content, IsOutcome)

Cards(content) == SelectSeq(content, IsCard)

\* The last step was a submit that validation rejected / accepted.
SubmitStep == nSubmits' = nSubmits + 1

\* The last step finished a call: what it finished with.
Finished == done # <<>>

Rejected == Finished /\ done[1].settled = "rejected"

Responded == Finished /\ done[1].settled = "responded"

Parsed == Responded /\ done[1].response.body # <<>>

Result == done[1].response.body[1]

\* 2xx and success: true.
SuccessResponse == Parsed /\ done[1].response.ok /\ Result.success

\* Non-2xx, or 2xx and a body whose success is not true.
FailureResponse ==
    /\ Responded
    /\ \/ ~done[1].response.ok
       \/ Parsed /\ ~Result.success

(***************************************************************************)
(* C1.  A submit with an empty location or an empty business type issues   *)
(* no POST /api/analyze and does not show the loading indicator; it        *)
(* renders the validation panel as the results content.                    *)
(***************************************************************************)
C1_ValidationFailsFast ==
    [][ (SubmitStep /\ (location = "" \/ businessType = ""))
        => /\ nCalls' = nCalls
           /\ calls' = calls
           /\ loadingHidden' = loadingHidden
           /\ resultsContent' = << ValidationPanel >>
           /\ ~resultsHidden' ]_vars

\* A rejected submit while an earlier call is still pending.
C1_Witness ==
    /\ nSubmits = 2
    /\ nCalls = 1
    /\ calls # {}
    /\ resultsContent = << ValidationPanel >>

(***************************************************************************)
(* C2.  The loading indicator is visible exactly when an analyze call is   *)
(* pending.                                                                *)
(***************************************************************************)
C2_LoadingIffPending == (~loadingHidden) <=> (calls # {})

(***************************************************************************)
(* C3.  The results content never mixes two outcomes: it holds at most one *)
(* block besides success banners; the step that finishes a call makes the  *)
(* content exactly that call's outcome (its card or an error panel), and   *)
(* until the next call finishes the outcome shown changes only by a        *)
(* validation panel taking its place.                                      *)
(***************************************************************************)
OutcomeOf(b, d) ==
    \/ b.kind = "error"
    \/ /\ d.settled = "responded"
       /\ d.response.body # <<>>
       /\ d.response.body[1].recommendation # <<>>
       /\ b = RenderCard(d.response.body[1])

C3_OneOutcomeShown ==
    /\ [](Len(Outcomes(resultsContent)) <= 1)
    /\ [][ done' # <<>>
           => /\ Len(resultsContent') = 1
              /\ OutcomeOf(resultsContent'[1], done'[1]) ]_vars
    /\ [][ done' = <<>>
           => \/ Outcomes(resultsContent') = Outcomes(resultsContent)
              \/ resultsContent' = << ValidationPanel >> ]_vars

\* Two overlapping calls; the one issued second finished first, the one
\* issued first finished last with a card.
C3_Witness ==
    /\ nCalls = 2
    /\ calls = {}
    /\ Finished
    /\ done[1].id = 1
    /\ Len(resultsContent) = 1
    /\ IsCard(resultsContent[1])

(***************************************************************************)
(* C4.  As claimed: every call that completes with a 2xx status and        *)
(* success: true gets its result card rendered, with the results section   *)
(* visible, and never an error panel.                                      *)
(***************************************************************************)
C4_SuccessAlwaysRendersCard ==
    SuccessResponse
    => /\ Len(resultsContent) = 1
       /\ IsCard(resultsContent[1])
       /\ ~resultsHidden

(***************************************************************************)
(* C4, amended.  Every call that completes with a 2xx status, success:     *)
(* true and a recommendation that carries its insights gets the result     *)
(* card of that response rendered as the whole results content, with the   *)
(* results section visible.                                                *)
(***************************************************************************)
WellFormed(result) ==
    /\ result.recommendation # <<>>
    /\ result.recommendation[1].insights # <<>>

C4_WellFormedSuccessRendersCard ==
    (SuccessResponse /\ WellFormed(Result))
    => /\ Len(resultsContent) = 1
       /\ IsCard(resultsContent[1])
       /\ resultsContent[1].saveArg = Interpolate(Result.analysis_id)
       /\ resultsContent[1].reasoning = Result.recommendation[1].reasoning
       /\ ~resultsHidden

\* A card rendered over the error panel of an earlier call.
C4_Witness ==
    /\ SuccessResponse
    /\ WellFormed(Result)
    /\ done[1].id = 2
    /\ IsCard(resultsContent[1])

(***************************************************************************)
(* C5.  As claimed: every call that completes with a non-2xx status, or    *)
(* with a 2xx status and success not true, ends with one error panel that  *)
(* shows the response's error string when the response has one and         *)
(* 'Analysis failed' otherwise, with no card and the loading indicator     *)
(* hidden.                                                                 *)
(***************************************************************************)
ErrorPresent == Parsed /\ Result.error # Absent

C5_FailureShowsErrorString ==
    FailureResponse
    => /\ resultsContent =
            << IF ErrorPresent THEN ErrorPanel(Result.error) ELSE GenericPanel >>
       /\ loadingHidden

(***************************************************************************)
(* C5, amended.  Every call that completes with a JSON body and a non-2xx  *)
(* status, or a 2xx status and success not true, ends with one error panel *)
(* that shows the response's error string when it is a non-empty string    *)
(* and 'Analysis failed' otherwise; a response whose body is not JSON ends *)
(* with the network-error panel.  In all these cases no card is rendered   *)
(* and the loading indicator is hidden.                                    *)
(***************************************************************************)
C5_FailureShowsErrorOrGeneric ==
    FailureResponse
    => /\ resultsContent =
            << IF ~Parsed THEN NetworkPanel
               ELSE IF ErrorPresent /\ Result.error # ""
                    THEN ErrorPanel(Result.error)
                    ELSE GenericPanel >>
       /\ loadingHidden

\* HTTP 500 with {success: false, error: "rate limited"}.
C5_Witness ==
    /\ FailureResponse
    /\ Parsed
    /\ ~done[1].response.ok
    /\ Result.error = "rate limited"
    /\ resultsContent = << ErrorPanel("rate limited") >>

(***************************************************************************)
(* C6.  Every call whose fetch rejects ends with the network-error panel   *)
(* as the results content, no card, and the loading indicator hidden.      *)
(***************************************************************************)
C6_RejectShowsNetworkError ==
    Rejected
    => /\ resultsContent = << NetworkPanel >>
       /\ Cards(resultsContent) = <<>>
       /\ loadingHidden

\* The fetch of one call rejects while another call is still pending.
C6_Witness ==
    /\ Rejected
    /\ calls # {}
    /\ resultsContent = << NetworkPanel >>

(***************************************************************************)
(* C7.  Every analysis-path error (a submit that validation rejects, a     *)
(* failure response, a rejected fetch, an exception while the response is  *)
(* handled) leaves exactly one error panel as the whole results content,   *)
(* with the results section visible.                                       *)
(***************************************************************************)
ErrorCompletion ==
    \/ Rejected
    \/ FailureResponse
    \/ Responded /\ ~Parsed
    \/ SuccessResponse /\ ~WellFormed(Result)

OneErrorPanel(content) == Len(content) = 1 /\ content[1].kind = "error"

C7_ErrorsEndInOnePanel ==
    /\ [](ErrorCompletion => OneErrorPanel(resultsContent) /\ ~resultsHidden)
    /\ [][ (SubmitStep /\ nCalls' = nCalls)
           => OneErrorPanel(resultsContent') /\ ~resultsHidden' ]_vars

\* An error panel that took the place of a saved card and its banner.
C7_Witness ==
    /\ ErrorCompletion
    /\ Len(saveLog) >= 1
    /\ OneErrorPanel(resultsContent)

(***************************************************************************)
(* C8.  As claimed: after a new submit or a reset, the result rendered     *)
(* before is no longer held in the results content.                        *)
(***************************************************************************)
ResetStep == ~resultsHidden /\ resultsHidden'

C8_SubmitAndResetClearContent ==
    [][ (SubmitStep \/ ResetStep) => Cards(resultsContent') = <<>> ]_vars

(***************************************************************************)
(* C8, amended.  The results content holds at most one result card.  The   *)
(* content changes only by being replaced as a whole by one freshly        *)
(* rendered block (the outcome of a call that finishes, or the validation  *)
(* panel of a rejected submit) or by a success banner added above it: an   *)
(* accepted submit leaves the previous rendering in place until its call   *)
(* finishes, and a reset hides the results section and keeps its content.  *)
(* The section becomes visible again only in a step that replaces the      *)
(* content, so a result that was hidden or replaced is never shown again.  *)
(***************************************************************************)
FreshBlock ==
    /\ Len(resultsContent') = 1
    /\ IsOutcome(resultsContent'[1])
    /\ \/ done' # <<>>
       \/ SubmitStep /\ resultsContent' = << ValidationPanel >>

BannerAdded ==
    /\ Len(resultsContent') = Len(resultsContent) + 1
    /\ IsBanner(resultsContent'[1])
    /\ Tail(resultsContent') = resultsContent

C8_ReplacedAsAWhole ==
    /\ [](Len(Cards(resultsContent)) <= 1)
    /\ [][ resultsContent' # resultsContent => FreshBlock \/ BannerAdded ]_vars
    /\ [][ (resultsHidden /\ ~resultsHidden') => FreshBlock ]_vars
    /\ [][ (SubmitStep /\ nCalls' = nCalls + 1)
           => resultsContent' = resultsContent ]_vars
    /\ [][ ResetStep => resultsContent' = resultsContent ]_vars

\* After a reset the card is hidden and still held in the content, while a
\* new submission is pending.
C8_Witness ==
    /\ resultsHidden
    /\ Len(Cards(resultsContent)) = 1
    /\ calls # {}
    /\ nCalls = 2

(***************************************************************************)
(* C9.  Starting from an empty list, after N saves the persisted list      *)
(* reads back as N records in save order, the k-th with the id given to    *)
(* the k-th save and the value the location field had at that save.        *)
(***************************************************************************)
C9_SaveListRoundTrip ==
    LET saved == ReadSaved(storage)
    IN  /\ Len(saved) = Len(saveLog)
        /\ \A k \in 1..Len(saveLog) :
              /\ saved[k].id = saveLog[k].id
              /\ saved[k].location = saveLog[k].location

\* Two saves of different analyses made with different location values.
C9_Witness ==
    /\ Len(saveLog) = 2
    /\ saveLog[1].id # saveLog[2].id
    /\ saveLog[1].location # saveLog[2].location
    /\ Len(ReadSaved(storage)) = 2

(***************************************************************************)
(* C10.  The persisted list is append-only: a step that is no save leaves  *)
(* it unchanged; a save keeps every stored record, in order, and adds      *)
(* exactly one record at the end.                                          *)
(***************************************************************************)
SaveStep == Len(saveLog') = Len(saveLog) + 1

C10_SaveListAppendOnly ==
    [][ LET before == ReadSaved(storage)
            after == ReadSaved(storage')
        IN  IF SaveStep
            THEN /\ Len(after) = Len(before) + 1
                 /\ SubSeq(after, 1, Len(before)) = before
            ELSE storage' = storage ]_vars

\* A save onto a list that already holds a record, with a call pending.
C10_Witness ==
    /\ Len(ReadSaved(storage)) = 2
    /\ calls # {}

(***************************************************************************)
(* C11.  The handler of an accepted submit hides the loading indicator     *)
(* exactly once, and only when the outcome of its call is known: the       *)
(* indicator goes from shown to hidden only in the step that finishes a    *)
(* call; a handler ends only in such a step, which hides the indicator on  *)
(* every path (card, error response, rejected fetch, body that does not    *)
(* parse, rendering that throws); and no call is finished twice, because   *)
(* the finished call was pending, is pending no more, and a call number is *)
(* never issued again.                                                     *)
(***************************************************************************)
CallIds(cs) == { c.id : c \in cs }

C11_HidesOnceWhenOutcomeKnown ==
    /\ [](\A c \in calls : c.id <= nCalls)
    /\ [][ /\ CallIds(calls') \subseteq CallIds(calls) \cup {nCalls + 1}
           /\ nCalls' >= nCalls
           /\ (~loadingHidden /\ loadingHidden') => done' # <<>>
           /\ (CallIds(calls) \ CallIds(calls') # {}) => done' # <<>>
           /\ done' # <<>>
              => /\ loadingHidden'
                 /\ done'[1].id \in CallIds(calls)
                 /\ CallIds(calls') = CallIds(calls) \ {done'[1].id} ]_vars

\* The rendering of a success response threw, and the indicator is hidden.
C11_Witness ==
    /\ SuccessResponse
    /\ ~WellFormed(Result)
    /\ loadingHidden
    /\ calls = {}

(***************************************************************************)
(* C12.  For every success response that is rendered, the badge class is   *)
(* 'confidence-high' exactly when the confidence score is at least 70,     *)
(* 'confidence-medium' exactly when it is at least 50 and below 70, and    *)
(* 'confidence-low' otherwise; the percentage shown and the foot-traffic,  *)
(* competition and demographic-match tiles are the scores rounded to the   *)
(* nearest integer; the fourth tile is the number of category gaps.        *)
(* Scores are in tenths: 700 stands for 70.                                *)
(***************************************************************************)
Abs(x) == IF x < 0 THEN -x ELSE x

\* n is an integer nearest to x tenths: no integer is nearer.
Nearest(n, x) == 2 * Abs(10 * n - x) <= 10

C12_BadgeAndTiles ==
    (SuccessResponse /\ WellFormed(Result))
    => LET recommendation == Result.recommendation[1]
           insights == recommendation.insights[1]
           score == recommendation.confidence_score
           card == resultsContent[1]
       IN  /\ IsCard(card)
           /\ card.badge \in {"confidence-high", "confidence-medium",
                               "confidence-low"}
           /\ card.badge = "confidence-high" <=> score >= 700
           /\ card.badge = "confidence-medium" <=> (score >= 500 /\ score < 700)
           /\ card.badge = "confidence-low" <=> score < 500
           /\ Nearest(card.confidence, score)
           /\ Len(card.tiles) = 4
           /\ Nearest(card.tiles[1], insights.foot_traffic_score)
           /\ Nearest(card.tiles[2], insights.competition_density)
           /\ Nearest(card.tiles[3], insights.demographic_match)
           /\ card.tiles[4] = Len(insights.category_gaps)

\* A score of 69.5: shown as 70% with the medium badge.
C12_Witness ==
    /\ SuccessResponse
    /\ WellFormed(Result)
    /\ Result.recommendation[1].confidence_score = 695
    /\ Result.recommendation[1].insights[1].demographic_match = 445
    /\ resultsContent[1].confidence = 70
    /\ resultsContent[1].badge = "confidence-medium"
    /\ resultsContent[1].tiles[3] = 45

(***************************************************************************)
(* C13.  Each of the category-gaps, nearby-attractions and risk-factors    *)
(* sections of a rendered card is absent exactly when its array is empty;  *)
(* when the array is not empty the section is there and holds one entry    *)
(* per element, in the array's order: the gaps and the attractions as one  *)
(* text with ', ' between the elements, the risks as one list item each.   *)
(***************************************************************************)
\* text is the elements of arr, in order, with sep between neighbours.
JoinedFrom(text, arr, sep) ==
    /\ Len(text) = 2 * Len(arr) - 1
    /\ \A i \in 1..Len(arr) : text[2 * i - 1] = arr[i]
    /\ \A i \in 1..(Len(arr) - 1) : text[2 * i] = sep

ItemsFrom(items, arr) ==
    /\ Len(items) = Len(arr)
    /\ \A i \in 1..Len(arr) : items[i] = [li |-> arr[i]]

C13_SectionsFollowArrays ==
    (SuccessResponse /\ WellFormed(Result))
    => LET insights == Result.recommendation[1].insights[1]
           card == resultsContent[1]
       IN  /\ IsCard(card)
           /\ card.gaps = <<>> <=> insights.category_gaps = <<>>
           /\ card.attractions = <<>> <=> insights.nearby_attractions = <<>>
           /\ card.risks = <<>> <=> insights.risk_factors = <<>>
           /\ insights.category_gaps # <<>>
              => /\ Len(card.gaps) = 1
                 /\ JoinedFrom(card.gaps[1], insights.category_gaps, ", ")
           /\ insights.nearby_attractions # <<>>
              => /\ Len(card.attractions) = 1
                 /\ JoinedFrom(card.attractions[1],
                               insights.nearby_attractions, ", ")
           /\ insights.risk_factors # <<>>
              => /\ Len(card.risks) = 1
                 /\ ItemsFrom(card.risks[1], insights.risk_factors)

\* Two gaps, no attraction, one risk.
C13_Witness ==
    /\ SuccessResponse
    /\ WellFormed(Result)
    /\ Result.recommendation[1].insights[1].category_gaps = <<"y", "x">>
    /\ Result.recommendation[1].insights[1].nearby_attractions = <<>>
    /\ Result.recommendation[1].insights[1].risk_factors = <<"x">>
    /\ resultsContent[1].gaps = << <<"y", ", ", "x">> >>
    /\ resultsContent[1].attractions = <<>>
    /\ resultsContent[1].risks = << << [li |-> "x"] >> >>

(***************************************************************************)
(* C14.  A save does not replace the rendered result: after it the results *)
(* content is the success banner followed by the content as it was before  *)
(* the save, and the results section and the loading indicator are as      *)
(* visible as they were.                                                   *)
(***************************************************************************)
C14_SaveKeepsResult ==
    [][ SaveStep
        => /\ resultsContent' =
                << SuccessBanner("Analysis saved successfully!") >>
                \o resultsContent
           /\ Cards(resultsContent') = Cards(resultsContent)
           /\ resultsHidden' = resultsHidden
           /\ loadingHidden' = loadingHidden ]_vars

\* Saved twice while a later call is pending: two banners above the card,
\* the loading indicator still shown.
C14_Witness ==
    /\ Len(saveLog) = 2
    /\ Len(resultsContent) = 3
    /\ IsBanner(resultsContent[1])
    /\ IsBanner(resultsContent[2])
    /\ IsCard(resultsContent[3])
    /\ ~resultsHidden
    /\ ~loadingHidden

(***************************************************************************)
(* C15.  newAnalysis can be called in every state, also when the results   *)
(* section is already hidden, and leaves the form cleared, the results     *)
(* section hidden and the focus in the location field; called in the state *)
(* a call of it has left, it changes nothing, so two calls in a row leave  *)
(* the state one call leaves.                                              *)
(***************************************************************************)
AfterReset ==
    /\ location = DefaultLocation
    /\ businessType = DefaultBusinessType
    /\ demographics = DefaultDemographics
    /\ resultsHidden
    /\ focus = "location"

C15_ResetIdempotent ==
    /\ [](ENABLED newAnalysis)
    /\ [][ newAnalysis => AfterReset' ]_vars
    /\ [][ (AfterReset /\ newAnalysis)
           => UNCHANGED <<location, businessType, demographics, focus,
                          loadingHidden, resultsHidden, resultsContent, calls,
                          nCalls, storage, analytics, nEvents>> ]_vars

\* The form was reset over a shown result while a later call is pending.
C15_Witness ==
    /\ AfterReset
    /\ resultsContent # <<>>
    /\ calls # {}

(***************************************************************************)
(* C16.  Every form submission, accepted by validation or not, emits       *)
(* exactly one 'analysis_started' event that carries the business type     *)
(* chosen in the form and a boolean that is true exactly when at least one *)
(* demographic filter is checked; a rejected submission emits it too and   *)
(* issues no analyze call; no other step emits an event.                   *)
(***************************************************************************)
C16_EverySubmitEmitsOneEvent ==
    /\ [][ SubmitStep
           => /\ nEvents' = nEvents + 1
              /\ analytics' = analytics (+) SetToBag({
                     [event_type |-> "analysis_started",
                      data |-> [business_type |-> businessType,
                                has_demographics |-> demographics # {}]] })
              /\ (location = "" \/ businessType = "")
                 => (nCalls' = nCalls /\ calls' = calls) ]_vars
    /\ [][ ~SubmitStep
           => /\ nEvents' = nEvents
              /\ \A e \in BagToSet(analytics') :
                     CopiesIn(e, analytics') <= CopiesIn(e, analytics) ]_vars

\* A submit with a filter checked and no business type: rejected, its event
\* in flight, no call issued.
C16_Witness ==
    /\ nSubmits = 1
    /\ nCalls = 0
    /\ resultsContent = << ValidationPanel >>
    /\ BagIn([event_type |-> "analysis_started",
              data |-> [business_type |-> "", has_demographics |-> TRUE]],
             analytics)

(***************************************************************************)
(* C17.  An analytics request has no failure coupling.  The step in which  *)
(* one settles, resolved or rejected, changes none of the results content, *)
(* the visibility of the results section, the loading indicator and the    *)
(* save-list, sends nothing again, and leaves the pending analyze calls as *)
(* they were; and whatever analytics requests are in flight, every pending *)
(* analyze call can take its next step.                                    *)
(***************************************************************************)
AnalyticsSettles == BagCardinality(analytics') < BagCardinality(analytics)

HandlingThrows ==
    /\ Responded
    /\ \/ ~Parsed
       \/ SuccessResponse /\ ~WellFormed(Result)

C18_HandlingExceptionIsCaught ==
    HandlingThrows
    => /\ resultsContent = << NetworkPanel >>
       /\ ~resultsHidden
       /\ loadingHidden
       /\ done[1].id \notin CallIds(calls)

\* The second of two calls answers success: true with a recommendation
\* that has no insights, after the first one had put its outcome on the
\* page.
C18_Witness ==
    /\ SuccessResponse
    /\ Result.recommendation # <<>>
    /\ Result.recommendation[1].insights = <<>>
    /\ done[1].id = 2
    /\ calls = {}
    /\ resultsContent = << NetworkPanel >>

(***************************************************************************)
(* C19.  As claimed: the save control is bound to the result it was        *)
(* rendered with: a save made from the card on the page stores the         *)
(* analysis_id of the response that produced that card.                    *)
(***************************************************************************)
Last(s) == s[Len(s)]

C19_SaveStoresResponseId ==
    [][ SaveStep
        => /\ shown # <<>>
           /\ Last(ReadSaved(storage')).id = shown[1].analysis_id ]_vars

(***************************************************************************)
(* C19, amended.  The save control is bound to the result it was rendered  *)
(* with.  The card on the page is always the rendering of the response of  *)
(* the last call that finished with a card, also under banners and when    *)
(* calls finished out of order; a save made from it stores the id written  *)
(* into that card: the response's analysis_id, and the text 'undefined'    *)
(* when the response carries none.  It never stores the id of a card that  *)
(* was replaced or of a call that is still pending.                        *)
(***************************************************************************)
C19_SaveStoresRenderedId ==
    /\ []((SuccessResponse /\ WellFormed(Result)) => shown = << Result >>)
    /\ [](Cards(resultsContent) =
             IF shown = <<>> THEN <<>> ELSE << RenderCard(shown[1]) >>)
    /\ [][ (shown' # shown) => done' # <<>> \/ SubmitStep ]_vars
    /\ [][ SaveStep
           => /\ shown # <<>>
              /\ Len(ReadSaved(storage')) = Len(ReadSaved(storage)) + 1
              /\ Last(ReadSaved(storage')).id =
                    IF shown[1].analysis_id = Absent THEN "undefined"
                    ELSE shown[1].analysis_id ]_vars

\* The card of a1 was saved, then replaced by the card of a2, which was
\* saved under its own id.
C19_Witness ==
    /\ Len(ReadSaved(storage)) = 2
    /\ ReadSaved(storage)[1].id = "a1"
    /\ ReadSaved(storage)[2].id = "a2"
    /\ shown # <<>>
    /\ shown[1].analysis_id = "a2"
    /\ IsBanner(resultsContent[1])

====
